---- MODULE Spec2Model ----
(***************************************************************************)
(* A model of gamedebug_core (src/src/lib.rs): the two global message      *)
(* buffers IMMEDIATE and PERSISTENT (MsgBuf: a Mutex<Vec<Msg>> and an      *)
(* AtomicBool gate), the global FRAME_COUNTER (AtomicU32), and the threads *)
(* of a host program calling the public functions.  Every atomic load,     *)
(* atomic store and mutex critical section of the source is one step, so    *)
(* the interleavings of the model are those of the program.                *)
(***************************************************************************)
EXTENDS Integers, Sequences, FiniteSets, TLC

VARIABLES
    msgs,           \* MsgBuf::msgs, per buffer: the Vec inside the Mutex
    enabled,        \* MsgBuf::enabled, per buffer: the AtomicBool
    lock,           \* owner of each buffer's Mutex, or NoThread
    FRAME_COUNTER,  \* the AtomicU32
    pc,             \* per thread: its position in the function it runs
    self,           \* per thread: the buffer (&self) of the running method
    arg,            \* per thread: the msg argument of a running push
    loc,            \* per thread: the running function's locals
                    \*   (flag: what push loaded, toggle's current;
                    \*    frame: inc_frame's frame;
                    \*    pos: the position of for_each's iterator)
    seen,           \* per thread: entries the for_each callback was given
    last,           \* the call that completed most recently, and its result
    pushLog,        \* history: per buffer, the msgs of the push calls
                    \*   completed in the current run of pushes
    pushLogOK,      \* history: per buffer, TRUE while the run of pushes
                    \*   started on an empty buffer with the flag true and
                    \*   no clear, trim_old or flag store to false followed
    togBase,        \* history: per buffer, the flag before the current
                    \*   run of toggle calls
    togOdd,         \* history: per buffer, TRUE iff an odd number of
                    \*   toggle calls completed in the current run
    incs,           \* history: number of completed inc_frame calls
    bnd,            \* the exploration bounds of the behaviour (constant)
    poisoned,       \* per buffer: the Mutex is poisoned (a thread panicked
                    \*   while it held the guard)
    ctx,            \* per thread: the *_dbg! macro it is expanding, with the
                    \*   inspected value, or NoCtx
    stored          \* history: per buffer, TRUE once a store to the flag
                    \*   (set_enabled or toggle) has completed

vars == <<msgs, enabled, lock, FRAME_COUNTER, pc, self, arg, loc, seen, last,
          pushLog, pushLogOK, togBase, togOdd, incs, bnd,
          poisoned, ctx, stored>>

-----------------------------------------------------------------------------
(* Bounds of the exploration *)

AllLen == 1         \* entries a buffer may grow to in Spec
AllIncs == 1        \* inc_frame calls explored in Spec
MaxLen == 2         \* entries a buffer may grow to, with two threads
MaxIncs == 3        \* inc_frame calls explored, with two threads
FramesLen == 1      \* entries PERSISTENT may grow to in SpecFrames
SeqLen == 3         \* entries a buffer may grow to, with one thread
SeqIncs == 2        \* inc_frame calls explored, with one thread
CapRun == 25        \* entries PERSISTENT may grow to in SpecCap
WrapLead == 1       \* SpecWrap starts this far below the counter's maximum
GlobalLen == 1      \* entries a buffer may grow to in SpecGlobals
MacroLen == 2       \* entries PERSISTENT may grow to in SpecMacros
OrderLen == 3       \* entries the buffer may grow to in SpecOrder
CallbackLen == 2    \* entries the buffer may grow to in SpecCallback
FairLen == 1        \* entries IMMEDIATE may grow to in SpecFair
StampLen == 2       \* entries PERSISTENT may grow to in SpecStamps
StampIncs == 1      \* inc_frame calls explored in SpecStamps

-----------------------------------------------------------------------------
(* Values *)

Threads == {"t1", "t2"}
NoThread == "none"
IMMEDIATE == "IMMEDIATE"
PERSISTENT == "PERSISTENT"
Bufs == {IMMEDIATE, PERSISTENT}
NoBuf == "none"
Nil == "nil"
NoCtx == [m |-> "none"]
\* the locals of a thread that runs no function
NoLocals == [flag |-> FALSE, frame |-> [hi |-> 0, lo |-> 0], pos |-> 0]

\* u32: AtomicU32 (line 80), PerEntry::frame (line 85).  A u32 is held as
\* its two 16-bit halves, [hi, lo] standing for hi * 2^16 + lo, since the
\* model checker's integers end below 2^32.
U16_MAX == 65535
U32(hi, lo) == [hi |-> hi, lo |-> lo]
U32_ZERO == U32(0, 0)
U32_MAX == U32(U16_MAX, U16_MAX)
U32_lt(x, y) == x.hi < y.hi \/ (x.hi = y.hi /\ x.lo < y.lo)
U32_le(x, y) == x = y \/ U32_lt(x, y)
\* x - n, for a small n and no borrow
U32_minus(x, n) == U32(x.hi, x.lo - n)

\* a count of calls: the same two halves, hi unbounded (2^32 is [2^16, 0])
CountSucc(n) ==
    IF n.lo < U16_MAX THEN U32(n.hi, n.lo + 1) ELSE U32(n.hi + 1, 0)
\* n - m as an integer, for counts less than 2^17 apart
CountDiff(n, m) == (n.hi - m.hi) * (U16_MAX + 1) + (n.lo - m.lo)

Strings == {"a", "b"}

\* Option<SrcLoc> (lines 89, 94-98)
None == [some |-> FALSE]
Some(x) == [some |-> TRUE, val |-> x]
SrcLoc(file, line, column) == [file |-> file, line |-> line, column |-> column]
SrcLocs == {None, Some(SrcLoc("main.rs", 7, 5))}
\* the place of a macro call: _gamedebug_core_src_loc! (lines 102-110)
CallSite == SrcLoc("main.rs", 7, 5)
\* the formatted message of per!("Hi!") and imm!("Hi!") (line 179; lines
\* 7-8 of tests/integ.rs)
MacroStrings == {"Hi!"}
\* the integer literal given to per_dbg! and imm_dbg! (line 180; lines
\* 9-10 of tests/integ.rs)
DbgValues == {42}

\* an entry stamped with frame 0 whatever the counter holds
PerEntry_unstamped(frame, info, src_loc) ==
    [frame |-> U32_ZERO, info |-> info, src_loc |-> src_loc]
\* the PerEntry built by per (lines 114-118)
PerEntry(frame, info, src_loc) ==
    [frame |-> frame, info |-> info, src_loc |-> src_loc]

-----------------------------------------------------------------------------
(* The pure parts of the code *)

\* a constructor that starts every buffer enabled
MsgBuf_new_enabled(en) == [msgs |-> <<>>, enabled |-> TRUE]
\* MsgBuf::new (lines 28-33)
MsgBuf_new(en) == [msgs |-> <<>>, enabled |-> en]

\* a push that does not look at the flag
push_gate_open(en) == TRUE
\* the gate of push (line 36): if self.enabled.load(Acquire) { ... }
push_gate(en) == en

\* a push that inserts at the front
Vec_push_front(v, msg) == <<msg>> \o v
\* Vec::push in push (line 37)
Vec_push(v, msg) == Append(v, msg)

\* a push to PERSISTENT that holds the buffer to 20 entries
push_entry_capped(b, v, msg) ==
    IF b = PERSISTENT /\ Len(v) >= 20 THEN Tail(Vec_push(v, msg))
    ELSE Vec_push(v, msg)
\* what push leaves in buffer b (line 37): the same for every buffer
push_entry(b, v, msg) == Vec_push(v, msg)

\* a toggle that stores what it loaded
toggle_value_same(current) == current
\* !current in toggle (line 43)
toggle_value(current) == ~current

\* a clear that keeps the first entry
Vec_truncate_1(v) == IF Len(v) = 0 THEN v ELSE <<v[1]>>
\* Vec::clear in clear (line 47)
Vec_clear(v) == <<>>

\* a trim that removes the newest entry
Vec_pop(v) == SubSeq(v, 1, Len(v) - 1)
\* Vec::remove(0) in trim_old (line 61)
Vec_remove_0(v) == Tail(v)

\* the loop of trim_old (lines 60-62)
RECURSIVE trim_old_loop(_, _)
trim_old_loop(v, max) ==
    IF Len(v) > max THEN trim_old_loop(Vec_remove_0(v), max) ELSE v

\* Vec::len in len (line 72)
Vec_len(v) == Len(v)

\* self.len() == 0 in is_empty (line 76)
is_empty_value(n) == n = 0

\* frame + 1 in inc_frame (line 124), on u32: with overflow checks (the
\* default of debug builds) the addition panics when it overflows, without
\* them (the default of release builds) it wraps
add_overflows(frame) == frame = U32_MAX
\* an increment by 2
wrapping_add_2(frame) ==
    IF frame.lo < U16_MAX - 1 THEN U32(frame.hi, frame.lo + 2)
    ELSE U32((frame.hi + 1) % (U16_MAX + 1), frame.lo + 2 - (U16_MAX + 1))
wrapping_add_1(frame) ==
    IF frame.lo < U16_MAX THEN U32(frame.hi, frame.lo + 1)
    ELSE U32((frame.hi + 1) % (U16_MAX + 1), 0)

\* stringify!($x) (lines 146, 170), for an integer literal: its digits
stringify(x) == ToString(x)

\* {:#?} (lines 146, 170), for an integer: its decimal digits
fmt_debug(x) == ToString(x)

\* a per_dbg! that leaves out the expression
per_dbg_value_only(x) == fmt_debug(x)
\* the message of per_dbg! (line 170):
\* format!(concat!(stringify!($x), ": {:#?}"), $x)
per_dbg_format(x) == stringify(x) \o ": " \o fmt_debug(x)

\* the message of imm_dbg! (lines 145-148): format!(concat!(file!(), ":",
\* line!(), ": ", stringify!($val), ": {:#?}"), $val)
imm_dbg_format(site, x) ==
    site.file \o ":" \o ToString(site.line) \o ": "
        \o stringify(x) \o ": " \o fmt_debug(x)

\* a store that reaches the flag of every buffer
flag_store_shared(en, b, v) == [x \in DOMAIN en |-> v]
\* self.enabled.store(v) (lines 43, 55): the flag of buffer b alone
flag_store(en, b, v) == [en EXCEPT ![b] = v]

\* a guard that is forgotten, not dropped
guard_leak(lk, b) == lk
\* the MutexGuard of b is dropped (end of lines 37, 47, 59-62, 66-68, 72)
guard_drop(lk, b) == [lk EXCEPT ![b] = NoThread]

-----------------------------------------------------------------------------
(* Initial states *)

Bound(live, bufs, size, incs_, strs, locs) ==
    [live |-> live, bufs |-> bufs, size |-> size, incs |-> incs_,
     strs |-> strs, locs |-> locs, trims |-> 0..(size + 1),
     frame0 |-> U32_ZERO, dbgs |-> DbgValues, hist |-> TRUE]

InitWith(bd, frame0) ==
    /\ bnd = [bd EXCEPT !.frame0 = frame0]
    \* lines 16, 18: MsgBuf::new(false)
    /\ msgs = [b \in Bufs |-> MsgBuf_new(FALSE).msgs]
    /\ enabled = [b \in Bufs |-> MsgBuf_new(FALSE).enabled]
    /\ lock = [b \in Bufs |-> NoThread]
    \* line 80: AtomicU32::new(0)
    /\ FRAME_COUNTER = frame0
    /\ incs = frame0
    /\ pc = [t \in Threads |-> "idle"]
    /\ self = [t \in Threads |-> NoBuf]
    /\ arg = [t \in Threads |-> Nil]
    /\ loc = [t \in Threads |-> NoLocals]
    /\ seen = [t \in Threads |-> <<>>]
    /\ last = [op |-> "none", buf |-> NoBuf, val |-> 0, pre |-> <<>>]
    /\ pushLog = [b \in Bufs |-> <<>>]
    /\ pushLogOK = [b \in Bufs |-> FALSE]
    /\ togBase = [b \in Bufs |-> FALSE]
    /\ togOdd = [b \in Bufs |-> FALSE]
    /\ poisoned = [b \in Bufs |-> FALSE]
    /\ ctx = [t \in Threads |-> NoCtx]
    /\ stored = [b \in Bufs |-> FALSE]

\* process start; both buffers and the counter, any thread calling anything
Init == InitWith(Bound(Threads, Bufs, AllLen, AllIncs, {"a"}, {None}),
                 U32_ZERO)

\* process start; one thread using one MsgBuf (IMMEDIATE)
InitMsgBuf == InitWith(Bound({"t1"}, {IMMEDIATE}, SeqLen, 0, Strings, {None}),
                       U32_ZERO)

\* process start; two threads using one MsgBuf (IMMEDIATE)
InitRace == InitWith(Bound(Threads, {IMMEDIATE}, MaxLen, 0, {"a"}, {None}),
                     U32_ZERO)

\* process start; one thread (the host) using PERSISTENT and the counter
InitPer == InitWith(Bound({"t1"}, {PERSISTENT}, MaxLen, SeqIncs,
                          Strings, SrcLocs), U32_ZERO)

\* process start; one thread, a long run of per calls
InitCap == InitWith([Bound({"t1"}, {PERSISTENT}, CapRun, 1, {"a"}, {None})
                        EXCEPT !.trims = {0, 20}], U32_ZERO)

\* process start; two threads using PERSISTENT and the counter
InitFrames == InitWith(Bound(Threads, {PERSISTENT}, FramesLen, MaxIncs,
                             {"a"}, {None}), U32_ZERO)

\* the state after U32_MAX - WrapLead inc_frame calls of the host thread
InitWrap == InitWith(Bound({"t1"}, {PERSISTENT}, MaxLen, WrapLead + 2,
                           {"a"}, {None}), U32_minus(U32_MAX, WrapLead))

\* process start; one thread (the host) using both buffers, the counter
\* and the macros
InitGlobals == InitWith([Bound({"t1"}, Bufs, GlobalLen, 1, MacroStrings,
                               {Some(CallSite)})
                            EXCEPT !.trims = {0, GlobalLen}], U32_ZERO)

\* process start; one thread (the host) using PERSISTENT, the counter and
\* the macros per! and per_dbg!
InitMacros == InitWith(Bound({"t1"}, {PERSISTENT}, MacroLen, 1, MacroStrings,
                             {Some(CallSite)}), U32_ZERO)

\* process start; two threads pushing differing messages to one MsgBuf
InitOrder == InitWith(Bound(Threads, {IMMEDIATE}, OrderLen, 0, Strings,
                            {None}), U32_ZERO)

\* process start; two threads using one MsgBuf, with for_each callbacks
\* that call back into the buffer or panic
InitCallback == InitWith(Bound(Threads, {IMMEDIATE}, CallbackLen, 0, {"a"},
                               {None}), U32_ZERO)

\* process start; two threads using IMMEDIATE and the counter, the history
\* of completed calls not kept
InitFair == InitWith([Bound(Threads, {IMMEDIATE}, FairLen, 1, {"a"}, {None})
                        EXCEPT !.hist = FALSE], U32_ZERO)

\* process start; PERSISTENT and the counter used by one thread or by two
InitStamps == \E live \in {{"t1"}, Threads} :
                InitWith(Bound(live, {PERSISTENT}, StampLen, StampIncs,
                               {"a"}, {None}), U32_ZERO)

-----------------------------------------------------------------------------
(* Helpers of the actions *)

Idle(t) == t \in bnd.live /\ pc[t] = "idle"

\* push calls on b that are between their call and their return
InFlight(b) == {u \in Threads : pc[u] \in {"push", "push_lock"} /\ self[u] = b}

Room(b) ==
    /\ b \in bnd.bufs
    /\ Len(msgs[b]) + Cardinality(InFlight(b)) < bnd.size

\* a Mutex that excludes nobody
Unlocked_always(b) == TRUE
\* lock() returns: no thread holds the Mutex of b
Unlocked(b) == lock[b] = NoThread

\* a lock().unwrap() that takes the guard out of the PoisonError
Free_into_inner(b) == Unlocked(b)
\* lock().unwrap() yields the guard (lines 37, 47, 59, 66, 72): the Mutex
\* of b is not held and not poisoned
Free(b) == Unlocked(b) /\ ~poisoned[b]

\* thread t returns from op on b; last records the call (in the behaviours
\* that keep this history): val is what it
\* returned (for push the flag it loaded, for set_enabled and trim_old its
\* argument), pre the entries of b before a clear or trim_old
ReturnPre(t, op, b, val, pre) ==
    \* back in the host's code, or in the *_dbg! macro that made the call
    /\ pc' = [pc EXCEPT ![t] = IF ctx[t] = NoCtx THEN "idle"
                                ELSE "dbg_value"]
    /\ self' = [self EXCEPT ![t] = NoBuf]
    /\ arg' = [arg EXCEPT ![t] = Nil]
    /\ loc' = [loc EXCEPT ![t] = NoLocals]
    /\ seen' = [seen EXCEPT ![t] = <<>>]
    /\ last' = IF bnd.hist
               THEN [op |-> op, buf |-> b, val |-> val, pre |-> pre]
               ELSE last

Return(t, op, b, val) == ReturnPre(t, op, b, val, <<>>)

\* thread t moves on to position p of a method of b
Goto(t, p, b, a, l) ==
    /\ pc' = [pc EXCEPT ![t] = p]
    /\ self' = [self EXCEPT ![t] = b]
    /\ arg' = [arg EXCEPT ![t] = a]
    /\ loc' = [loc EXCEPT ![t] = l]
    /\ UNCHANGED <<seen, last>>

\* history of a store of v to the flag of b: a store of true on an empty
\* buffer starts a run of pushes, a store of false ends it
LogOnStore(b, v) ==
    /\ pushLogOK' = [pushLogOK EXCEPT ![b] =
                        IF ~v THEN FALSE
                        ELSE IF msgs[b] = <<>> THEN TRUE ELSE @]
    /\ pushLog' = [pushLog EXCEPT ![b] =
                        IF ~v \/ msgs[b] = <<>> THEN <<>> ELSE @]

\* history of a clear or trim_old of b that leaves content v
LogOnCut(b, v) ==
    /\ pushLogOK' = [pushLogOK EXCEPT ![b] = enabled[b] /\ v = <<>>]
    /\ pushLog' = [pushLog EXCEPT ![b] = <<>>]

\* history of a completed push of msg to b
LogOnPush(b, msg) ==
    /\ pushLog' = [pushLog EXCEPT ![b] =
                        IF pushLogOK[b] THEN Append(@, msg) ELSE @]
    /\ UNCHANGED pushLogOK

-----------------------------------------------------------------------------
(* The actions: one per atomic step of each public function *)

\* imm! (lines 134-138): IMMEDIATE.push(format!(..))
imm(t, s) ==
    /\ Idle(t)
    /\ Room(IMMEDIATE)
    /\ Goto(t, "push", IMMEDIATE, s, NoLocals)
    /\ UNCHANGED <<msgs, enabled, lock, FRAME_COUNTER,
                   pushLog, pushLogOK, togBase, togOdd, incs, bnd, poisoned, ctx, stored>>

\* per (lines 113-119): the PerEntry is built, frame() (line 129) loading
\* the counter, and PERSISTENT.push is called with it
per(t, info, src_loc) ==
    /\ Idle(t)
    /\ Room(PERSISTENT)
    /\ Goto(t, "push", PERSISTENT, PerEntry(FRAME_COUNTER, info, src_loc), NoLocals)
    /\ UNCHANGED <<msgs, enabled, lock, FRAME_COUNTER,
                   pushLog, pushLogOK, togBase, togOdd, incs, bnd, poisoned, ctx, stored>>

\* push, line 36: the load of the flag and the branch on it
push_load(t) ==
    /\ pc[t] = "push"
    /\ IF push_gate(enabled[self[t]])
       THEN /\ Goto(t, "push_lock", self[t], arg[t],
                    [NoLocals EXCEPT !.flag = enabled[self[t]]])
            /\ UNCHANGED <<pushLog, pushLogOK>>
       ELSE /\ Return(t, "push", self[t], enabled[self[t]])
            /\ LogOnPush(self[t], arg[t])
    /\ UNCHANGED <<msgs, enabled, lock, FRAME_COUNTER,
                   togBase, togOdd, incs, bnd, poisoned, ctx, stored>>

\* push, line 37: lock, Vec::push, unlock
push_lock(t) ==
    /\ pc[t] = "push_lock"
    /\ Free(self[t])
    /\ msgs' = [msgs EXCEPT ![self[t]] = push_entry(self[t], @, arg[t])]
    /\ Return(t, "push", self[t], loc[t].flag)
    /\ LogOnPush(self[t], arg[t])
    /\ UNCHANGED <<enabled, lock, FRAME_COUNTER, togBase, togOdd, incs, bnd, poisoned, ctx, stored>>

\* toggle, line 42: the load
toggle(t, b) ==
    /\ Idle(t)
    /\ Goto(t, "toggle_store", b, Nil, [NoLocals EXCEPT !.flag = enabled[b]])
    /\ UNCHANGED <<msgs, enabled, lock, FRAME_COUNTER,
                   pushLog, pushLogOK, togBase, togOdd, incs, bnd, poisoned, ctx, stored>>

\* toggle, line 43: the store
toggle_store(t) ==
    /\ pc[t] = "toggle_store"
    /\ enabled' = flag_store(enabled, self[t], toggle_value(loc[t].flag))
    /\ LogOnStore(self[t], toggle_value(loc[t].flag))
    /\ stored' = [stored EXCEPT ![self[t]] = TRUE]
    /\ togOdd' = [togOdd EXCEPT ![self[t]] = ~@]
    /\ Return(t, "toggle", self[t], Nil)
    /\ UNCHANGED <<msgs, lock, FRAME_COUNTER, togBase, incs, bnd, poisoned, ctx>>

\* clear (lines 46-48)
clear(t, b) ==
    /\ Idle(t)
    /\ Free(b)
    /\ msgs' = [msgs EXCEPT ![b] = Vec_clear(@)]
    /\ LogOnCut(b, Vec_clear(msgs[b]))
    /\ ReturnPre(t, "clear", b, Nil, msgs[b])
    /\ UNCHANGED <<enabled, lock, FRAME_COUNTER, togBase, togOdd, incs, bnd, poisoned, ctx, stored>>

\* enabled (lines 50-52)
get_enabled(t, b) ==
    /\ Idle(t)
    /\ Return(t, "enabled", b, enabled[b])
    /\ UNCHANGED <<msgs, enabled, lock, FRAME_COUNTER,
                   pushLog, pushLogOK, togBase, togOdd, incs, bnd, poisoned, ctx, stored>>

\* set_enabled (lines 54-56)
set_enabled(t, b, v) ==
    /\ Idle(t)
    /\ enabled' = flag_store(enabled, b, v)
    /\ LogOnStore(b, v)
    /\ stored' = [stored EXCEPT ![b] = TRUE]
    /\ togBase' = [togBase EXCEPT ![b] = v]
    /\ togOdd' = [togOdd EXCEPT ![b] = FALSE]
    /\ Return(t, "set_enabled", b, v)
    /\ UNCHANGED <<msgs, lock, FRAME_COUNTER, incs, bnd, poisoned, ctx>>

\* trim_old (lines 58-63)
trim_old(t, b, max) ==
    /\ Idle(t)
    /\ Free(b)
    /\ msgs' = [msgs EXCEPT ![b] = trim_old_loop(@, max)]
    /\ LogOnCut(b, trim_old_loop(msgs[b], max))
    /\ ReturnPre(t, "trim_old", b, max, msgs[b])
    /\ UNCHANGED <<enabled, lock, FRAME_COUNTER, togBase, togOdd, incs, bnd, poisoned, ctx, stored>>

\* for_each, line 66: the lock is taken and the iteration starts
for_each(t, b) ==
    /\ Idle(t)
    /\ Free(b)
    /\ lock' = [lock EXCEPT ![b] = t]
    /\ Goto(t, "for_each", b, Nil, NoLocals)
    /\ UNCHANGED <<msgs, enabled, FRAME_COUNTER,
                   pushLog, pushLogOK, togBase, togOdd, incs, bnd, poisoned, ctx, stored>>

\* for_each, line 67: f(en) on the next entry
for_each_call(t) ==
    /\ pc[t] = "for_each"
    /\ loc[t].pos < Len(msgs[self[t]])
    /\ seen' = [seen EXCEPT ![t] = Append(@, msgs[self[t]][loc[t].pos + 1])]
    /\ loc' = [loc EXCEPT ![t].pos = @ + 1]
    /\ UNCHANGED <<msgs, enabled, lock, FRAME_COUNTER, pc, self, arg, last,
                   pushLog, pushLogOK, togBase, togOdd, incs, bnd, poisoned, ctx, stored>>

\* for_each, lines 68-69: the iteration ends and the guard is dropped
for_each_end(t) ==
    /\ pc[t] = "for_each"
    /\ loc[t].pos >= Len(msgs[self[t]])
    /\ lock' = guard_drop(lock, self[t])
    /\ Return(t, "for_each", self[t], seen[t])
    /\ UNCHANGED <<msgs, enabled, FRAME_COUNTER,
                   pushLog, pushLogOK, togBase, togOdd, incs, bnd, poisoned, ctx, stored>>

\* len (lines 71-73)
len(t, b) ==
    /\ Idle(t)
    /\ Free(b)
    /\ Return(t, "len", b, Vec_len(msgs[b]))
    /\ UNCHANGED <<msgs, enabled, lock, FRAME_COUNTER,
                   pushLog, pushLogOK, togBase, togOdd, incs, bnd, poisoned, ctx, stored>>

\* is_empty (lines 75-77): self.len() == 0
is_empty(t, b) ==
    /\ Idle(t)
    /\ Free(b)
    /\ Return(t, "is_empty", b, is_empty_value(Vec_len(msgs[b])))
    /\ UNCHANGED <<msgs, enabled, lock, FRAME_COUNTER,
                   pushLog, pushLogOK, togBase, togOdd, incs, bnd, poisoned, ctx, stored>>

\* inc_frame, line 123: the load
inc_frame(t) ==
    /\ Idle(t)
    /\ CountDiff(incs, bnd.frame0)
            + Cardinality({u \in Threads : pc[u] = "inc_store"}) < bnd.incs
    /\ Goto(t, "inc_store", NoBuf, Nil,
            [NoLocals EXCEPT !.frame = FRAME_COUNTER])
    /\ UNCHANGED <<msgs, enabled, lock, FRAME_COUNTER,
                   pushLog, pushLogOK, togBase, togOdd, incs, bnd, poisoned, ctx, stored>>

\* inc_frame, line 124: frame + 1 and the store.  When the addition
\* overflows, a build with overflow checks panics before the store and a
\* build without them stores the wrapped sum.
inc_store(t) ==
    /\ pc[t] = "inc_store"
    /\ \/ /\ FRAME_COUNTER' = wrapping_add_1(loc[t].frame)
          /\ incs' = CountSucc(incs)
          /\ Return(t, "inc_frame", NoBuf, Nil)
       \/ /\ add_overflows(loc[t].frame)
          /\ pc' = [pc EXCEPT ![t] = "panicked"]
          /\ UNCHANGED <<FRAME_COUNTER, incs, self, arg, loc, seen, last>>
    /\ UNCHANGED <<msgs, enabled, lock,
                   pushLog, pushLogOK, togBase, togOdd, bnd, poisoned, ctx, stored>>

\* frame (lines 128-130)
frame(t) ==
    /\ Idle(t)
    /\ Return(t, "frame", NoBuf, FRAME_COUNTER)
    /\ UNCHANGED <<msgs, enabled, lock, FRAME_COUNTER,
                   pushLog, pushLogOK, togBase, togOdd, incs, bnd, poisoned, ctx, stored>>

\* per_dbg! (lines 167-175): the message is formatted and per is called
\* with it and the call's place, whatever the flag of PERSISTENT holds.
\* (ctx keeps, for the history, the flag and the entries at the call.)
per_dbg(t, x) ==
    /\ Idle(t)
    /\ Room(PERSISTENT)
    /\ ctx' = [ctx EXCEPT ![t] =
                [m |-> "per_dbg", buf |-> PERSISTENT, input |-> x,
                 formatted |-> <<per_dbg_format(x)>>,
                 en |-> enabled[PERSISTENT], pre |-> msgs[PERSISTENT]]]
    /\ Goto(t, "push", PERSISTENT,
            PerEntry(FRAME_COUNTER, per_dbg_format(x), Some(CallSite)),
            NoLocals)
    /\ UNCHANGED <<msgs, enabled, lock, FRAME_COUNTER,
                   pushLog, pushLogOK, togBase, togOdd, incs, bnd,
                   poisoned, stored>>

\* imm_dbg! (lines 142-151): if IMMEDIATE.enabled() (line 144) the message is
\* formatted and IMMEDIATE.push is called with it
imm_dbg(t, x) ==
    /\ Idle(t)
    /\ Room(IMMEDIATE)
    /\ IF enabled[IMMEDIATE]
       THEN /\ ctx' = [ctx EXCEPT ![t] =
                        [m |-> "imm_dbg", buf |-> IMMEDIATE, input |-> x,
                         formatted |-> <<imm_dbg_format(CallSite, x)>>,
                         en |-> TRUE, pre |-> msgs[IMMEDIATE]]]
            /\ Goto(t, "push", IMMEDIATE, imm_dbg_format(CallSite, x), NoLocals)
       ELSE /\ ctx' = [ctx EXCEPT ![t] =
                        [m |-> "imm_dbg", buf |-> IMMEDIATE, input |-> x,
                         formatted |-> <<>>,
                         en |-> FALSE, pre |-> msgs[IMMEDIATE]]]
            /\ Goto(t, "dbg_value", IMMEDIATE, Nil, NoLocals)
    /\ UNCHANGED <<msgs, enabled, lock, FRAME_COUNTER,
                   pushLog, pushLogOK, togBase, togOdd, incs, bnd,
                   poisoned, stored>>

\* the last expression of imm_dbg! and per_dbg! (lines 150, 173): $val is
\* evaluated, for a literal to the value it was formatted from, and is the
\* value of the macro call
dbg_value(t) ==
    /\ pc[t] = "dbg_value"
    /\ pc' = [pc EXCEPT ![t] = "idle"]
    /\ self' = [self EXCEPT ![t] = NoBuf]
    /\ arg' = [arg EXCEPT ![t] = Nil]
    /\ loc' = [loc EXCEPT ![t] = NoLocals]
    /\ ctx' = [ctx EXCEPT ![t] = NoCtx]
    /\ last' = [op |-> ctx[t].m, buf |-> ctx[t].buf,
                val |-> [input |-> ctx[t].input, value |-> ctx[t].input,
                         formatted |-> ctx[t].formatted, en |-> ctx[t].en],
                pre |-> ctx[t].pre]
    /\ UNCHANGED <<msgs, enabled, lock, FRAME_COUNTER, seen,
                   pushLog, pushLogOK, togBase, togOdd, incs, bnd,
                   poisoned, stored>>

\* the methods that take the lock whatever the flag holds
LockOps == {"clear", "trim_old", "for_each", "len", "is_empty"}

\* thread t is in for_each with an entry left: f(en) is running or about to
InCallback(t) == pc[t] = "for_each" /\ loc[t].pos < Len(msgs[self[t]])

\* a Mutex that its holder may lock again
can_lock_reentrant(t, b) == Free(b) \/ lock[b] = t
\* lock() called by t on the Mutex of b succeeds: std's Mutex is not
\* re-entrant, the holder is treated as any other thread
can_lock(t, b) == Free(b)

\* the callback calls set_enabled on the buffer it iterates (lines 54-56)
callback_set_enabled(t, v) ==
    /\ InCallback(t)
    /\ enabled' = flag_store(enabled, self[t], v)
    /\ LogOnStore(self[t], v)
    /\ stored' = [stored EXCEPT ![self[t]] = TRUE]
    /\ togBase' = [togBase EXCEPT ![self[t]] = v]
    /\ togOdd' = [togOdd EXCEPT ![self[t]] = FALSE]
    /\ last' = [op |-> "set_enabled", buf |-> self[t], val |-> v,
                pre |-> <<>>]
    /\ UNCHANGED <<msgs, lock, FRAME_COUNTER, pc, self, arg, loc, seen,
                   incs, bnd, poisoned, ctx>>

\* the callback calls toggle on the buffer it iterates: the load (line 42)
callback_toggle(t) ==
    /\ InCallback(t)
    /\ pc' = [pc EXCEPT ![t] = "callback_toggle"]
    /\ arg' = [arg EXCEPT ![t] = enabled[self[t]]]
    /\ UNCHANGED <<msgs, enabled, lock, FRAME_COUNTER, self, loc, seen, last,
                   pushLog, pushLogOK, togBase, togOdd, incs, bnd,
                   poisoned, ctx, stored>>

\* the callback's toggle: the store (line 43), and back in the callback
callback_toggle_store(t) ==
    /\ pc[t] = "callback_toggle"
    /\ enabled' = flag_store(enabled, self[t], toggle_value(arg[t]))
    /\ LogOnStore(self[t], toggle_value(arg[t]))
    /\ stored' = [stored EXCEPT ![self[t]] = TRUE]
    /\ togOdd' = [togOdd EXCEPT ![self[t]] = ~@]
    /\ pc' = [pc EXCEPT ![t] = "for_each"]
    /\ arg' = [arg EXCEPT ![t] = Nil]
    /\ last' = [op |-> "toggle", buf |-> self[t], val |-> Nil, pre |-> <<>>]
    /\ UNCHANGED <<msgs, lock, FRAME_COUNTER, self, loc, seen,
                   togBase, incs, bnd, poisoned, ctx>>

\* the callback calls push on the buffer it iterates
callback_push(t, s) ==
    /\ InCallback(t)
    /\ pc' = [pc EXCEPT ![t] = "callback_push"]
    /\ arg' = [arg EXCEPT ![t] = s]
    /\ UNCHANGED <<msgs, enabled, lock, FRAME_COUNTER, self, loc, seen, last,
                   pushLog, pushLogOK, togBase, togOdd, incs, bnd,
                   poisoned, ctx, stored>>

\* the callback's push, line 36: with the flag false it returns to the
\* callback, with the flag true it goes on to lock() (line 37)
callback_push_load(t) ==
    /\ pc[t] = "callback_push"
    /\ IF push_gate(enabled[self[t]])
       THEN /\ pc' = [pc EXCEPT ![t] = "relock"]
            /\ arg' = [arg EXCEPT ![t] = [op |-> "push", msg |-> arg[t]]]
            /\ UNCHANGED last
       ELSE /\ pc' = [pc EXCEPT ![t] = "for_each"]
            /\ arg' = [arg EXCEPT ![t] = Nil]
            /\ last' = [op |-> "push", buf |-> self[t], val |-> FALSE,
                        pre |-> <<>>]
    /\ UNCHANGED <<msgs, enabled, lock, FRAME_COUNTER, self, loc, seen,
                   pushLog, pushLogOK, togBase, togOdd, incs, bnd,
                   poisoned, ctx, stored>>

\* the callback calls clear, trim_old, for_each, len or is_empty on the
\* buffer it iterates: the call goes straight to lock() (lines 47, 59, 66,
\* 72)
callback_lock(t, op) ==
    /\ InCallback(t)
    /\ pc' = [pc EXCEPT ![t] = "relock"]
    /\ arg' = [arg EXCEPT ![t] = [op |-> op, msg |-> Nil]]
    /\ UNCHANGED <<msgs, enabled, lock, FRAME_COUNTER, self, loc, seen, last,
                   pushLog, pushLogOK, togBase, togOdd, incs, bnd,
                   poisoned, ctx, stored>>

\* what the callback's call does to the entries once it holds the lock
relock_effect(call, v) ==
    IF call.op = "push" THEN Vec_push(v, call.msg)
    ELSE IF call.op = "clear" THEN Vec_clear(v)
    ELSE IF call.op = "trim_old" THEN trim_old_loop(v, 0)
    ELSE v

\* lock() of the callback's call, on the Mutex the thread itself holds.
\* std leaves the outcome open but for one thing, that the call does not
\* return: the thread blocks for ever (no step), or lock() panics, and
\* the unwinding drops for_each's guard and poisons the Mutex.
relock(t) ==
    /\ pc[t] = "relock"
    /\ IF can_lock(t, self[t])
       THEN /\ msgs' = [msgs EXCEPT ![self[t]] = relock_effect(arg[t], @)]
            /\ pc' = [pc EXCEPT ![t] = "for_each"]
            /\ arg' = [arg EXCEPT ![t] = Nil]
            /\ UNCHANGED <<lock, poisoned>>
       ELSE /\ pc' = [pc EXCEPT ![t] = "panicked"]
            /\ poisoned' = [poisoned EXCEPT ![self[t]] = TRUE]
            /\ lock' = guard_drop(lock, self[t])
            /\ UNCHANGED <<msgs, arg>>
    /\ UNCHANGED <<enabled, FRAME_COUNTER, self, loc, seen, last,
                   pushLog, pushLogOK, togBase, togOdd, incs, bnd,
                   ctx, stored>>

\* the callback panics (line 67): the unwinding drops the guard of
\* for_each, which poisons the Mutex
for_each_panic(t) ==
    /\ InCallback(t)
    /\ pc' = [pc EXCEPT ![t] = "panicked"]
    /\ poisoned' = [poisoned EXCEPT ![self[t]] = TRUE]
    /\ lock' = guard_drop(lock, self[t])
    /\ UNCHANGED <<msgs, enabled, FRAME_COUNTER, self, arg, loc, seen, last,
                   pushLog, pushLogOK, togBase, togOdd, incs, bnd,
                   ctx, stored>>

\* clear, trim_old, for_each, len or is_empty on a poisoned Mutex:
\* lock() returns Err and unwrap() panics (lines 47, 59, 66, 72)
unwrap_panic(t, b, op) ==
    /\ Idle(t)
    /\ Unlocked(b)
    /\ poisoned[b]
    /\ pc' = [pc EXCEPT ![t] = "panicked"]
    /\ self' = [self EXCEPT ![t] = b]
    /\ last' = [op |-> "panic", buf |-> b, val |-> op, pre |-> msgs[b]]
    /\ UNCHANGED <<msgs, enabled, lock, FRAME_COUNTER, arg, loc, seen,
                   pushLog, pushLogOK, togBase, togOdd, incs, bnd,
                   poisoned, ctx, stored>>

\* push on a poisoned Mutex, line 37: unwrap() panics
push_unwrap_panic(t) ==
    /\ pc[t] = "push_lock"
    /\ Unlocked(self[t])
    /\ poisoned[self[t]]
    /\ pc' = [pc EXCEPT ![t] = "panicked"]
    /\ last' = [op |-> "panic", buf |-> self[t], val |-> "push",
                pre |-> msgs[self[t]]]
    /\ UNCHANGED <<msgs, enabled, lock, FRAME_COUNTER, self, arg, loc, seen,
                   pushLog, pushLogOK, togBase, togOdd, incs, bnd,
                   poisoned, ctx, stored>>

\* the calls of the methods of MsgBuf
MsgBufCalls(t) ==
    \/ push_load(t)
    \/ push_lock(t)
    \/ \E b \in bnd.bufs : toggle(t, b)
    \/ toggle_store(t)
    \/ \E b \in bnd.bufs : clear(t, b)
    \/ \E b \in bnd.bufs : get_enabled(t, b)
    \/ \E b \in bnd.bufs, v \in BOOLEAN : set_enabled(t, b, v)
    \/ \E b \in bnd.bufs, max \in bnd.trims : trim_old(t, b, max)
    \/ \E b \in bnd.bufs : for_each(t, b)
    \/ for_each_call(t)
    \/ for_each_end(t)
    \/ \E b \in bnd.bufs : len(t, b)
    \/ \E b \in bnd.bufs : is_empty(t, b)

\* the calls of the frame counter's functions
FrameCalls(t) ==
    \/ inc_frame(t)
    \/ inc_store(t)
    \/ frame(t)

ImmCalls(t) == \E s \in bnd.strs : imm(t, s)

PerCalls(t) == \E info \in bnd.strs, src_loc \in bnd.locs : per(t, info, src_loc)

\* the inspecting macro of PERSISTENT
PerDbgCalls(t) ==
    \/ \E x \in bnd.dbgs : per_dbg(t, x)
    \/ dbg_value(t)

\* the inspecting macros
DbgCalls(t) ==
    \/ PerDbgCalls(t)
    \/ \E x \in bnd.dbgs : imm_dbg(t, x)

\* what a for_each callback may call on the buffer being iterated
CallbackCalls(t) ==
    \/ \E v \in BOOLEAN : callback_set_enabled(t, v)
    \/ callback_toggle(t)
    \/ callback_toggle_store(t)
    \/ \E s \in bnd.strs : callback_push(t, s)
    \/ callback_push_load(t)
    \/ \E op \in LockOps : callback_lock(t, op)
    \/ relock(t)

\* panics: of a callback, and of unwrap() on a poisoned Mutex
PanicCalls(t) ==
    \/ for_each_panic(t)
    \/ \E b \in bnd.bufs, op \in LockOps : unwrap_panic(t, b, op)
    \/ push_unwrap_panic(t)

\* the steps that continue a call thread t is in
Cont(t) ==
    \/ push_load(t)
    \/ push_lock(t)
    \/ toggle_store(t)
    \/ for_each_call(t)
    \/ for_each_end(t)
    \/ inc_store(t)
    \/ dbg_value(t)

\* the program: every thread may call every function
Next == \E t \in Threads :
            \/ ImmCalls(t) \/ PerCalls(t) \/ DbgCalls(t)
            \/ MsgBufCalls(t) \/ FrameCalls(t)
            \/ CallbackCalls(t) \/ PanicCalls(t)

\* a program of well-behaved callbacks: none calls back, none panics
NextPlain == \E t \in Threads :
            \/ ImmCalls(t) \/ PerCalls(t) \/ DbgCalls(t)
            \/ MsgBufCalls(t) \/ FrameCalls(t)

\* a program that uses IMMEDIATE and the frame counter
NextFair == \E t \in Threads : ImmCalls(t) \/ MsgBufCalls(t) \/ FrameCalls(t)

\* a program that uses PERSISTENT, the frame counter and per_dbg!
NextMacros == \E t \in Threads :
            PerCalls(t) \/ PerDbgCalls(t) \/ MsgBufCalls(t) \/ FrameCalls(t)

\* a program that uses one MsgBuf<String>, its callbacks calling back or
\* panicking
NextCallback == \E t \in Threads :
            ImmCalls(t) \/ MsgBufCalls(t) \/ CallbackCalls(t) \/ PanicCalls(t)

\* a program that uses one MsgBuf<String>
NextMsgBuf == \E t \in Threads : ImmCalls(t) \/ MsgBufCalls(t)

\* a program that uses PERSISTENT and the frame counter
NextPer == \E t \in Threads : PerCalls(t) \/ MsgBufCalls(t) \/ FrameCalls(t)

Spec == Init /\ [][Next]_vars
SpecMsgBuf == InitMsgBuf /\ [][NextMsgBuf]_vars
SpecRace == InitRace /\ [][NextMsgBuf]_vars
SpecPer == InitPer /\ [][NextPer]_vars
SpecCap == InitCap /\ [][NextPer]_vars
SpecFrames == InitFrames /\ [][NextPer]_vars
SpecWrap == InitWrap /\ [][NextPer]_vars
SpecGlobals == InitGlobals /\ [][NextPlain]_vars
SpecMacros == InitMacros /\ [][NextMacros]_vars
SpecOrder == InitOrder /\ [][NextMsgBuf]_vars
SpecCallback == InitCallback /\ [][NextCallback]_vars
SpecStamps == InitStamps /\ [][NextPer]_vars
\* the scheduler lets every thread that can take a step take one: a thread
\* in a call goes on unless it waits for a lock.  (Every step of Cont
\* changes pc or seen.)
SpecFair == InitFair /\ [][NextFair]_vars
                /\ WF_<<pc, seen>>(Cont("t1")) /\ WF_<<pc, seen>>(Cont("t2"))

-----------------------------------------------------------------------------
(* The claims *)

\* C1: for one MsgBuf whose flag is true and stays true, after k push calls
\* on the initially empty buffer, with no clear or trim_old between them,
\* len() is k and for_each visits exactly the k pushed messages, each once,
\* in the order of the push calls.  (pushLog holds the messages of those
\* calls, in call order, while pushLogOK says the run is such a run.)
C1_PushesKeptInOrder ==
    \A b \in Bufs :
        pushLogOK[b] =>
            /\ Vec_len(msgs[b]) = Len(pushLog[b])
            /\ \A t \in Threads :
                    pc[t] = "for_each" /\ self[t] = b =>
                        seen[t] = SubSeq(pushLog[b], 1, loc[t].pos)
            /\ last.op = "for_each" /\ last.buf = b => last.val = pushLog[b]

\* a for_each has just visited a run of three pushes of differing messages
C1_Witness ==
    /\ pushLogOK[IMMEDIATE]
    /\ enabled[IMMEDIATE]
    /\ last.op = "for_each" /\ last.buf = IMMEDIATE
    /\ Len(pushLog[IMMEDIATE]) = 3
    /\ pushLog[IMMEDIATE][1] # pushLog[IMMEDIATE][2]
    /\ last.val = pushLog[IMMEDIATE]

\* C2: a push call made while the flag is false (one thread, so nothing
\* changes the flag during the call) returns at once and leaves the entries
\* as they were: len() is unchanged and no entry is added.
C2_DisabledPushAddsNothing ==
    [][\A t \in Threads :
          pc[t] = "push" /\ ~enabled[self[t]] =>
              /\ pc'[t] = "idle"
              /\ msgs' = msgs
              /\ Vec_len(msgs'[self[t]]) = Vec_len(msgs[self[t]])]_vars

\* a push has returned having loaded false, on a buffer that holds entries
C2_Witness ==
    /\ last.op = "push"
    /\ last.val = FALSE
    /\ ~enabled[last.buf]
    /\ Len(msgs[last.buf]) = 2

\* C3 as claimed: under any interleaving of threads calling push,
\* set_enabled and toggle on one MsgBuf, no step adds an entry to the
\* buffer while its flag is false.
C3_AppendsOnlyWhileEnabled ==
    [][\A b \in Bufs : Len(msgs'[b]) > Len(msgs[b]) => enabled[b]]_vars

\* C3 as amended: every step that adds an entry to a buffer is the append
\* of a push call whose own load of the flag (line 36) returned true, and
\* it adds that call's message at the end; the flag itself may have been
\* stored false by another thread between that load and the append.
C3_AppendsOnlyAfterLoadingTrue ==
    [][\A b \in Bufs :
          Len(msgs'[b]) > Len(msgs[b]) =>
              \E t \in Threads :
                  /\ pc[t] = "push_lock" /\ self[t] = b
                  /\ pc'[t] = "idle"
                  /\ loc[t].flag
                  /\ msgs'[b] = Append(msgs[b], arg[t])]_vars

\* a push that loaded true has appended its entry while the flag was false
C3_Witness ==
    /\ last.op = "push"
    /\ last.val = TRUE
    /\ ~enabled[last.buf]
    /\ Len(msgs[last.buf]) > 0

\* C4: whatever the buffer holds and whichever value the flag has, a
\* completed clear() leaves the buffer with len() == 0 and is_empty() ==
\* true; len() returns the number of entries and is_empty() returns true
\* exactly when that number is 0.
C4_ClearEmpties ==
    /\ last.op = "clear" =>
            /\ msgs[last.buf] = <<>>
            /\ Vec_len(msgs[last.buf]) = 0
            /\ is_empty_value(Vec_len(msgs[last.buf]))
    /\ last.op = "len" => last.val = Len(msgs[last.buf])
    /\ last.op = "is_empty" => (last.val <=> Len(msgs[last.buf]) = 0)

\* a clear has completed on a disabled buffer that held two entries
C4_Witness ==
    /\ last.op = "clear"
    /\ Len(last.pre) = 2
    /\ ~enabled[last.buf]

\* C5: for content of length n and max >= 0, trim_old(max) leaves
\* len() <= max; if max >= n the content is unchanged; if max < n the
\* content is exactly the last max entries of the content before, in the
\* same order (the first kept entry is the one that was at index n - max,
\* counting from 0).  The flag plays no part.
C5_TrimKeepsNewest ==
    last.op = "trim_old" =>
        LET before == last.pre
            n == Len(before)
            max == last.val
            after == msgs[last.buf]
        IN  /\ Len(after) <= max
            /\ max >= n => after = before
            /\ max < n =>
                    /\ Len(after) = max
                    /\ \A i \in 1..max : after[i] = before[n - max + i]

\* a trim_old(2) has completed on a disabled buffer holding three entries,
\* the second differing from the third
C5_Witness ==
    /\ last.op = "trim_old"
    /\ last.val = 2
    /\ Len(last.pre) = 3
    /\ last.pre[2] # last.pre[3]
    /\ ~enabled[last.buf]

\* C6: with one thread calling toggle(), after an even number of toggle()
\* calls the flag has the value it had before them, after an odd number
\* the negation of it; and toggle() never changes the entries.  (togBase
\* is the flag before the calls, togOdd the parity of their number.)
C6_ToggleParity ==
    /\ [](\A b \in Bufs :
            (\A t \in Threads : ~(pc[t] = "toggle_store" /\ self[t] = b)) =>
                enabled[b] = (IF togOdd[b] THEN ~togBase[b] ELSE togBase[b]))
    /\ [][\A t \in Threads :
            pc[t] = "toggle_store" \/ pc'[t] = "toggle_store" =>
                msgs' = msgs]_vars

\* a second toggle in a row has completed, on a buffer that holds entries
C6_Witness ==
    /\ last.op = "toggle"
    /\ ~togOdd[last.buf]
    /\ enabled[last.buf] = togBase[last.buf]
    /\ Len(msgs[last.buf]) > 0

\* C7: from process start (counter 0), once the host thread has made N
\* completed inc_frame() calls (N < 2^32) and then calls per(info, src_loc)
\* while PERSISTENT is enabled, the entry appended to PERSISTENT has frame
\* N, the given info and the given src_loc; frame() returns N.
C7_PerStampsFrame ==
    /\ [](incs.hi <= U16_MAX =>
            /\ last.op = "push" /\ last.buf = PERSISTENT /\ last.val = TRUE =>
                    /\ Len(msgs[PERSISTENT]) > 0
                    /\ msgs[PERSISTENT][Len(msgs[PERSISTENT])].frame = incs
            /\ last.op = "frame" => last.val = incs)
    /\ [][\A t \in Threads, info \in bnd.strs, src_loc \in bnd.locs :
            per(t, info, src_loc) /\ enabled[PERSISTENT] =>
                arg'[t] = [frame |-> incs, info |-> info, src_loc |-> src_loc]]_vars
    /\ [][\A t \in Threads :
            pc[t] = "push" /\ self[t] = PERSISTENT /\ enabled[PERSISTENT] =>
                pc'[t] = "push_lock" /\ arg'[t] = arg[t]]_vars
    /\ [][\A t \in Threads :
            pc[t] = "push_lock" /\ self[t] = PERSISTENT =>
                msgs'[PERSISTENT] = Append(msgs[PERSISTENT], arg[t])]_vars

\* after two inc_frame calls a per with a source location has appended an
\* entry stamped 2
C7_Witness ==
    /\ last.op = "push" /\ last.buf = PERSISTENT /\ last.val = TRUE
    /\ incs = U32(0, 2)
    /\ msgs[PERSISTENT][Len(msgs[PERSISTENT])].frame = U32(0, 2)
    /\ msgs[PERSISTENT][Len(msgs[PERSISTENT])].src_loc.some

\* C8 as claimed: PERSISTENT holds at most 20 entries in every state
\* reached after a per() call completes (pushing 25 leaves 20).
C8_PerKeepsAtMost20 ==
    last.op = "push" /\ last.buf = PERSISTENT => Len(msgs[PERSISTENT]) <= 20

\* C8 as amended: per() enforces no cap.  25 per() calls into the enabled,
\* initially empty PERSISTENT, with no trim_old by the caller, leave all 25
\* entries, oldest first; the buffer is cut to 20 only by the caller's own
\* trim_old(20), which leaves the 20 most recently pushed, oldest first.
C8_PerKeepsEverything ==
    /\ pushLogOK[PERSISTENT] =>
            /\ msgs[PERSISTENT] = pushLog[PERSISTENT]
            /\ Len(pushLog[PERSISTENT]) = 25 => Len(msgs[PERSISTENT]) = 25
    /\ last.op = "trim_old" /\ last.buf = PERSISTENT /\ last.val = 20
          /\ Len(last.pre) > 20 =>
            /\ Len(msgs[PERSISTENT]) = 20
            /\ \A i \in 1..20 :
                    msgs[PERSISTENT][i] = last.pre[Len(last.pre) - 20 + i]

\* the 25th per() of a run has completed and PERSISTENT holds 25 entries
C8_Witness ==
    /\ pushLogOK[PERSISTENT]
    /\ last.op = "push" /\ last.buf = PERSISTENT /\ last.val = TRUE
    /\ Len(pushLog[PERSISTENT]) = 25
    /\ Len(msgs[PERSISTENT]) = 25

\* C9 as claimed: under any interleaving of threads calling inc_frame(),
\* with the counter below its maximum, no step moves the counter to a
\* smaller value and each completed inc_frame() raises it by exactly 1.
C9_CounterNeverDecreases ==
    [][U32_lt(FRAME_COUNTER, U32_MAX) =>
          /\ U32_le(FRAME_COUNTER, FRAME_COUNTER')
          /\ \A t \in Threads :
                pc[t] = "inc_store" /\ pc'[t] = "idle" =>
                    FRAME_COUNTER' = CountSucc(FRAME_COUNTER)]_vars

\* C9 as amended: with the counter below its maximum, an inc_frame() call
\* stores the value it loaded plus 1 (lines 123-124): when the counter
\* still holds the loaded value at the store, as it does whenever no other
\* inc_frame() call overlaps, the call raises the counter by exactly 1;
\* when another call's store came between, the store can lower the counter
\* and increments are lost.  Nothing but that store changes the counter.
C9_IncStoresLoadedPlusOne ==
    [][/\ \A t \in Threads :
            pc[t] = "inc_store" /\ pc'[t] = "idle"
                /\ U32_lt(loc[t].frame, U32_MAX) =>
                /\ FRAME_COUNTER' = CountSucc(loc[t].frame)
                /\ loc[t].frame = FRAME_COUNTER =>
                        /\ FRAME_COUNTER' = CountSucc(FRAME_COUNTER)
                        /\ U32_lt(FRAME_COUNTER, FRAME_COUNTER')
       /\ FRAME_COUNTER' # FRAME_COUNTER =>
            \E t \in Threads : pc[t] = "inc_store" /\ pc'[t] = "idle"]_vars

\* two inc_frame() calls have completed one after the other
C9_Witness ==
    /\ last.op = "inc_frame"
    /\ incs = U32(0, 2)
    /\ FRAME_COUNTER = U32(0, 2)

\* C10: when the counter holds the maximum u32, inc_frame() completes
\* without error or abnormal termination and leaves the counter at 0.
C10_IncWrapsSilently ==
    [][\A t \in Threads :
          pc[t] = "inc_store" /\ loc[t].frame = U32_MAX /\ pc'[t] # pc[t] =>
              /\ pc'[t] = "idle"
              /\ FRAME_COUNTER' = U32_ZERO]_vars

\* C11: at process start both global buffers are empty and disabled and the
\* frame counter is 0; a push made before any toggle() or set_enabled(true)
\* (imm!, per!) leaves the buffer empty, so each buffer stays empty and
\* disabled until a store to its flag; a push made after set_enabled(true)
\* on the empty buffer leaves len() == 1, the entry being the pushed one.
C11_StartsEmptyAndDisabled ==
    /\ \A b \in Bufs : ~stored[b] => ~enabled[b] /\ msgs[b] = <<>>
    /\ incs = U32_ZERO => FRAME_COUNTER = U32_ZERO
    /\ \A b \in Bufs :
            /\ last.op = "push" /\ last.buf = b
            /\ togBase[b] /\ ~togOdd[b]
            /\ pushLogOK[b] /\ Len(pushLog[b]) = 1
            => /\ Vec_len(msgs[b]) = 1
               /\ msgs[b][1] = pushLog[b][1]

\* per!("Hi!") has returned, the first push after set_enabled(true) on the
\* empty PERSISTENT, while IMMEDIATE is as it was at process start
C11_Witness ==
    /\ last.op = "push" /\ last.buf = PERSISTENT
    /\ togBase[PERSISTENT] /\ ~togOdd[PERSISTENT]
    /\ pushLogOK[PERSISTENT]
    /\ Len(msgs[PERSISTENT]) = 1
    /\ msgs[PERSISTENT][1].info = "Hi!"
    /\ ~stored[IMMEDIATE]

\* C12: with PERSISTENT disabled and empty, after one toggle() that enables
\* it, per!("Hi!") and then per_dbg!(42) each append exactly one entry, in
\* call order: the first entry's text is "Hi!", the second's is the
\* "<expression>: <value>" rendering of 42, and per_dbg!(42) evaluates to
\* exactly 42.
C12_PerThenPerDbg ==
    /\ last.op = "per_dbg" /\ last.val.input = 42
    /\ togOdd[PERSISTENT] /\ ~togBase[PERSISTENT]
    /\ pushLogOK[PERSISTENT] /\ Len(pushLog[PERSISTENT]) = 2
    /\ pushLog[PERSISTENT][1].info = "Hi!"
    => /\ Vec_len(msgs[PERSISTENT]) = 2
       /\ msgs[PERSISTENT][1].info = "Hi!"
       /\ msgs[PERSISTENT][2].info = "42: 42"
       /\ last.val.value = 42

\* per!("Hi!") and per_dbg!(42) have returned, in this order, after the
\* toggle() that enabled the empty PERSISTENT
C12_Witness ==
    /\ last.op = "per_dbg" /\ last.val.input = 42
    /\ togOdd[PERSISTENT] /\ ~togBase[PERSISTENT]
    /\ pushLogOK[PERSISTENT] /\ Len(pushLog[PERSISTENT]) = 2
    /\ pushLog[PERSISTENT][1].info = "Hi!"
    /\ Len(msgs[PERSISTENT]) = 2

\* the step, a step of the one thread of the program, belongs to a
\* function or macro of buffer b
OpOn(b) ==
    \E t \in bnd.live :
        \/ self[t] = b
        \/ self'[t] = b
        \/ pc[t] = "idle" /\ pc'[t] = "idle" /\ last'.buf = b
        \/ pc[t] = "dbg_value" /\ ctx[t].buf = b

\* C13: the two global buffers are independent: every operation on
\* IMMEDIATE leaves the entries and the flag of PERSISTENT unchanged, and
\* the other way round; no buffer operation changes the frame counter;
\* inc_frame() leaves both buffers unchanged.
C13_BuffersIndependent ==
    [][/\ \A b \in Bufs :
            OpOn(b) =>
                /\ \A c \in Bufs \ {b} :
                        /\ msgs'[c] = msgs[c]
                        /\ enabled'[c] = enabled[c]
                        /\ lock'[c] = lock[c]
                /\ FRAME_COUNTER' = FRAME_COUNTER
       /\ (\E t \in Threads : pc[t] = "inc_store" \/ pc'[t] = "inc_store") =>
                /\ msgs' = msgs
                /\ enabled' = enabled]_vars

\* inc_frame() has returned while IMMEDIATE is enabled and holds an entry,
\* and PERSISTENT is as it was at process start
C13_Witness ==
    /\ last.op = "inc_frame"
    /\ FRAME_COUNTER = U32(0, 1)
    /\ enabled[IMMEDIATE] /\ Len(msgs[IMMEDIATE]) = 1
    /\ ~enabled[PERSISTENT] /\ msgs[PERSISTENT] = <<>>
    /\ ~stored[PERSISTENT]

\* C15: imm_dbg! and per_dbg! check the flag of their buffer before any
\* formatting: when it is false no message is formatted and nothing is
\* pushed; in both cases the macro call evaluates to the inspected value.
C15_DbgChecksFlagFirst ==
    last.op \in {"imm_dbg", "per_dbg"} =>
        /\ last.val.value = last.val.input
        /\ ~last.val.en =>
                /\ last.val.formatted = <<>>
                /\ msgs[last.buf] = last.pre

\* s is what is left of v after entries were removed from its front
IsSuffix(s, v) == \E k \in 0..Len(v) : s = SubSeq(v, k + 1, Len(v))

\* C14: under any interleaving of threads pushing to the same enabled
\* MsgBuf, the entries are in the order in which the pushes appended (took
\* the lock): a push appends its msg behind every entry already there, an
\* entry leaves only at the front (clear, trim_old), so of two entries the
\* one appended first has the lower index for as long as both remain; no
\* pushed entry is lost, duplicated or reordered by concurrent pushes.
C14_ConcurrentPushesKeepOrder ==
    /\ [](\A b \in Bufs : pushLogOK[b] => msgs[b] = pushLog[b])
    /\ [][\A b \in Bufs :
            msgs'[b] # msgs[b] =>
                \/ \E t \in Threads :
                        /\ pc[t] = "push_lock" /\ self[t] = b
                        /\ pc'[t] = "idle"
                        /\ msgs'[b] = Append(msgs[b], arg[t])
                \/ IsSuffix(msgs'[b], msgs[b])]_vars

\* two pushes of differing messages have appended, in this order, while a
\* third push, of another thread, waits for the lock
C14_Witness ==
    /\ pushLogOK[IMMEDIATE]
    /\ msgs[IMMEDIATE] = <<"a", "b">>
    /\ last.op = "push" /\ last.buf = IMMEDIATE
    /\ \E t \in Threads : pc[t] = "push_lock" /\ self[t] = IMMEDIATE

\* C16: for_each holds the lock from before the first callback until
\* after the last: no push, clear or trim_old of another thread takes
\* effect between two callbacks, and the callbacks are given exactly the
\* entries the buffer held when the lock was taken, each once, in
\* insertion order.
C16_ForEachHoldsLock ==
    /\ [](\A t \in Threads :
            pc[t] = "for_each" =>
                /\ lock[self[t]] = t
                /\ seen[t] = SubSeq(msgs[self[t]], 1, loc[t].pos))
    /\ [][\A t \in Threads :
            pc[t] = "for_each" =>
                /\ msgs'[self[t]] = msgs[self[t]]
                /\ pc'[t] = "idle" => last'.val = msgs[self[t]]]_vars

\* a for_each is between its first and its second callback while a push
\* of the other thread waits for the lock
C16_Witness ==
    \E t, u \in Threads :
        /\ pc[t] = "for_each" /\ loc[t].pos = 1
        /\ Len(msgs[self[t]]) = 2
        /\ pc[u] = "push_lock" /\ self[u] = self[t]

\* C17: when the callback of for_each calls an operation that takes the
\* lock of the same buffer (push while enabled, clear, trim_old, len,
\* is_empty, for_each), that call never gets the lock and the for_each
\* never completes; enabled(), set_enabled(), toggle() called from the
\* callback, and push while disabled, do not block: the callback goes on.
C17_ReentrantCallNeverReturns ==
    /\ [](\A t \in Threads :
            /\ pc[t] = "relock" => lock[self[t]] = t
            /\ pc[t] = "callback_toggle" => ENABLED callback_toggle_store(t)
            /\ pc[t] = "callback_push" => ENABLED callback_push_load(t))
    /\ [][\A t \in Threads :
            /\ pc[t] = "relock" =>
                    /\ pc'[t] \in {"relock", "panicked"}
                    /\ msgs' = msgs
            /\ pc[t] = "panicked" => pc'[t] = "panicked"
            /\ pc[t] = "callback_toggle" /\ pc'[t] # pc[t] =>
                    pc'[t] = "for_each"
            /\ pc[t] = "callback_push" /\ ~enabled[self[t]]
                    /\ pc'[t] # pc[t] => pc'[t] = "for_each"]_vars

\* the callback's push, made while the flag was true, is at lock(), the
\* thread holding the lock itself
C17_Witness ==
    \E t \in Threads :
        /\ pc[t] = "relock"
        /\ arg[t].op = "push"
        /\ lock[self[t]] = t

\* C18: once a thread has panicked while holding the lock of a buffer
\* (inside a for_each callback), every later operation that takes that
\* lock ends in a panic and neither reads nor changes the entries: the
\* entries stay as they were when the Mutex was poisoned.
C18_PoisonedLockIsFatal ==
    [][\A b \in Bufs :
          poisoned[b] =>
            /\ poisoned'[b]
            /\ msgs'[b] = msgs[b]
            /\ lock'[b] = lock[b]
            /\ \A t \in Threads :
                  /\ pc[t] = "push_lock" /\ self[t] = b /\ pc'[t] # pc[t]
                        => pc'[t] = "panicked"
                  /\ pc[t] = "idle" /\ pc'[t] # pc[t] /\ self'[t] = b
                        => pc'[t] \in {"panicked", "push", "toggle_store"}]_vars

\* a clear() called after a callback panicked has panicked too, the
\* entries still there
C18_Witness ==
    /\ poisoned[IMMEDIATE]
    /\ last.op = "panic" /\ last.val = "clear"
    /\ msgs[IMMEDIATE] # <<>>
    /\ \A t \in Threads : pc[t] = "panicked"

\* every thread in a call can take a step, or waits for a lock whose
\* holder can take one
NoDeadlock ==
    \A t \in Threads :
        pc[t] # "idle" =>
            \/ ENABLED Cont(t)
            \/ \E u \in Threads \ {t} :
                    lock[self[t]] = u /\ ENABLED Cont(u)

StampsSorted ==
    \A i \in 1..(Len(msgs[PERSISTENT]) - 1) :
        U32_le(msgs[PERSISTENT][i].frame, msgs[PERSISTENT][i + 1].frame)

\* C20 as claimed: in every reachable state, under any interleaving of
\* threads calling per(), inc_frame(), clear() and trim_old(), with the
\* counter below its maximum, the frame stamps of the entries of
\* PERSISTENT are non-decreasing in stored order.
C20_StampsNonDecreasing == StampsSorted

\* C20 as amended: when one thread makes the per(), inc_frame(), clear()
\* and trim_old() calls, the frame stamps of the entries of PERSISTENT are
\* non-decreasing in stored order, so that trim_old evicts the smallest
\* stamps first.
C20_StampsNonDecreasingOneThread ==
    bnd.live = {"t1"} => StampsSorted

\* the one thread has called per(), inc_frame() and per() again
C20_Witness ==
    /\ bnd.live = {"t1"}
    /\ Len(msgs[PERSISTENT]) = 2
    /\ msgs[PERSISTENT][1].frame = U32_ZERO
    /\ msgs[PERSISTENT][2].frame = U32(0, 1)

====
